---- MODULE Spec2Model ----
(***************************************************************************)
(* Model of the validated-structured-output subsystem of ai_manager:       *)
(* AIManager.chat / AIManager._chat_with_validation (the retry loop), the  *)
(* chat() collaborator that builds and sends the vendor request, and the   *)
(* SchemaValidator (schema store, prompt augmentation, sanitizer, parser). *)
(*                                                                         *)
(* Texts are sequences of tokens.  A prompt or schema text is a sequence   *)
(* of the tokens "{", "}", NL and words; a model response is a sequence of *)
(* lines.  A data map is a function from placeholder names (token          *)
(* sequences) to texts.                                                    *)
(***************************************************************************)
EXTENDS Integers, Sequences, FiniteSets, TLC

VARIABLES
    config_retries,   \* config.max_validation_retries: {n}, or {} when the config has none
    config_template,  \* config.schema_prompt_template, NoTemplate when the config has none
    client,           \* self.client: TRUE when init_openai_client returned a client
    prompts,          \* self.prompts: prompt name -> prompt
    schemas,          \* self.schema_validator.schemas: name -> schema content
    add_raised,       \* TRUE when the last add_schema raised
    pc,               \* "idle" | "loop" | "returned": position of AIManager.chat
    args,             \* arguments of the running call: prompt_name, data, validate
    max_retries,      \* local max_retries of the running call
    schema_content,   \* local schema_content of _chat_with_validation
    modified_prompt,  \* local modified_prompt of _chat_with_validation
    response,         \* local response: what the last chat() of the loop returned
    attempt,          \* loop variable of the retry loop
    result,           \* value returned by AIManager.chat
    chat_calls,       \* arguments of every chat() invocation of the running call
    requests,         \* messages of every client.chat.completions.create of the call
    validations,      \* responses given to validate_structured_response in the call
    outcomes,         \* outcome of every finished attempt of the call
    schema_lookups,   \* number of Schema Store reads made by the call
    op_call,          \* the method or function called last on its own: arguments and locals
    op_ret            \* what that call returned

\* the state of the AIManager and of the call it is running
manager_vars ==
    <<config_retries, config_template, client, prompts, add_raised,
      pc, args, max_retries, schema_content, modified_prompt, response,
      attempt, result, chat_calls, requests, validations, outcomes,
      schema_lookups>>

vars == <<manager_vars, schemas, op_call, op_ret>>

----------------------------------------------------------------------------
(* Bounds and program constants *)

\* largest max_validation_retries a configuration of the model sets
MaxConfigRetries == 2

\* getattr(self.config, 'max_validation_retries', 3)
DefaultMaxRetries == 3

\* a missing (or empty) schema_prompt_template
NoTemplate == <<>>
NL == "\n"
LB == "{"
RB == "}"

----------------------------------------------------------------------------
(* Placeholder formatter: chat.py *)

\* index of the first "}" at or after k with no newline before it, 0 if none:
\* the non-greedy (.*?) of r'{(.*?)}' ends at the first "}", and "." stops at
\* a newline
RECURSIVE CloseAt(_, _)
CloseAt(text, k) ==
    IF k > Len(text) THEN 0
    ELSE IF text[k] = RB THEN k
    ELSE IF text[k] = NL THEN 0
    ELSE CloseAt(text, k + 1)

RECURSIVE FindAll(_, _)
FindAll(text, i) ==
    IF i > Len(text) THEN {}
    ELSE IF text[i] # LB THEN FindAll(text, i + 1)
    ELSE LET j == CloseAt(text, i + 1)
         IN  IF j = 0 THEN FindAll(text, i + 1)
             ELSE {SubSeq(text, i + 1, j - 1)} \cup FindAll(text, j + 1)

\* extract_placeholders: re.findall(r'{(.*?)}', prompt_text), [] for empty text
extract_placeholders(prompt_text) ==
    IF prompt_text = <<>> THEN {} ELSE FindAll(prompt_text, 1)

\* words that are plain identifiers; any other word inside a replacement field
\* carries a conversion, a format spec or an attribute and makes format raise
Idents == {"name", "topic"}

FormatError == <<"<format raised>">>

\* index of the first "}" at or after k, 0 if none
RECURSIVE FieldEnd(_, _)
FieldEnd(text, k) ==
    IF k > Len(text) THEN 0
    ELSE IF text[k] = RB THEN k
    ELSE FieldEnd(text, k + 1)

\* str.format(**data): "{{" and "}}" are escapes, "{name}" is replaced by
\* data[name], a single "}" or an unclosed "{" raises ValueError, an unknown
\* or empty field name raises KeyError/IndexError
RECURSIVE Format(_, _, _)
Format(text, data, i) ==
    IF i > Len(text) THEN <<>>
    ELSE IF text[i] = LB THEN
        IF i < Len(text) /\ text[i + 1] = LB THEN
            LET rest == Format(text, data, i + 2)
            IN  IF rest = FormatError THEN FormatError ELSE <<LB>> \o rest
        ELSE
            LET j == FieldEnd(text, i + 1)
                field == IF j = 0 THEN <<>> ELSE SubSeq(text, i + 1, j - 1)
            IN  IF j = 0 \/ Len(field) # 1 THEN FormatError
                ELSE IF field[1] \notin Idents \/ field \notin DOMAIN data
                     THEN FormatError
                ELSE LET rest == Format(text, data, j + 1)
                     IN  IF rest = FormatError THEN FormatError
                         ELSE data[field] \o rest
    ELSE IF text[i] = RB THEN
        IF i < Len(text) /\ text[i + 1] = RB THEN
            LET rest == Format(text, data, i + 2)
            IN  IF rest = FormatError THEN FormatError ELSE <<RB>> \o rest
        ELSE FormatError
    ELSE LET rest == Format(text, data, i + 1)
         IN  IF rest = FormatError THEN FormatError ELSE <<text[i]>> \o rest

----------------------------------------------------------------------------
(* Response lines.  A response is a sequence of lines; the library calls   *)
(* (str.strip, substring tests, json.loads, yaml.safe_load) are modelled   *)
(* by what they do on the lines below.                                     *)

\* the code-fence marker (three backquotes) is written [fence]
JsonFence == "[fence]json"
Fence == "[fence]"
LeadIn == "Here is the JSON:"
JsonA == "{\"a\": 1}"
JsonB == "{\"b\": 2}"
YamlA == "a: 1"
YamlB == "b: 2"
YamlResult == "result: 5"
Broken == "{invalid"
Prose == "This is not JSON or YAML {invalid"
NullLine == "null"
BadDate == "2001-13-45"
Blank == ""
TheResponseIs == "The response is:"
HeresResult == "Here's the result:"
IndentB == "  b: 2"
TrailA == "a: 1  "
Tilde == "~"

Lines == {JsonFence, Fence, LeadIn, JsonA, JsonB, YamlA, YamlB, YamlResult,
          Broken, Prose, NullLine, BadDate, Blank, TheResponseIs, HeresResult,
          IndentB, TrailA, Tilde}

\* not line.strip()
IsBlank(line) == line = Blank

\* any(pattern in line_lower for pattern in skip_patterns): "The response is:"
\* holds none of the patterns ('response:' needs the colon next to the word)
HasSkipPattern(line) == line \in {JsonFence, Fence, LeadIn, YamlResult, HeresResult}

\* str.lstrip() and str.rstrip() of one line
LineLStrip(line) == IF line = IndentB THEN YamlB ELSE line
LineRStrip(line) == IF line = TrailA THEN YamlA ELSE line

\* str.strip() of a text: leading and trailing blank lines go, and so does the
\* whitespace before the first and after the last character that stays
RECURSIVE LStrip(_)
LStrip(text) ==
    IF text = <<>> THEN <<>>
    ELSE IF IsBlank(Head(text)) THEN LStrip(Tail(text))
    ELSE text

RECURSIVE RStrip(_)
RStrip(text) ==
    IF text = <<>> THEN <<>>
    ELSE IF IsBlank(text[Len(text)]) THEN RStrip(SubSeq(text, 1, Len(text) - 1))
    ELSE text

Strip(text) ==
    LET kept == RStrip(LStrip(text))
        n == Len(kept)
    IN  [i \in 1..n |->
            LET left == IF i = 1 THEN LineLStrip(kept[i]) ELSE kept[i]
            IN  IF i = n THEN LineRStrip(left) ELSE left]

----------------------------------------------------------------------------
(* Response sanitizer: schema_validator.py sanitize_response *)

\* the for loop over lines: skip wrapper lines, skip blank lines at the start
RECURSIVE CleanLines(_, _)
CleanLines(lines, cleaned_lines) ==
    IF lines = <<>> THEN cleaned_lines
    ELSE LET line == Head(lines)
         IN  IF HasSkipPattern(line) THEN CleanLines(Tail(lines), cleaned_lines)
             ELSE IF cleaned_lines = <<>> /\ IsBlank(line)
                  THEN CleanLines(Tail(lines), cleaned_lines)
             ELSE CleanLines(Tail(lines), Append(cleaned_lines, line))

\* the while loop: pop trailing blank lines and closing code fences
RECURSIVE PopTrailing(_)
PopTrailing(cleaned_lines) ==
    IF cleaned_lines = <<>> THEN <<>>
    ELSE LET last == cleaned_lines[Len(cleaned_lines)]
         IN  IF IsBlank(last) \/ last = Fence
             THEN PopTrailing(SubSeq(cleaned_lines, 1, Len(cleaned_lines) - 1))
             ELSE cleaned_lines

\* mutant: the joined lines are returned without the final strip()
sanitize_response_NoFinalStrip(raw) ==
    IF raw = <<>> THEN raw
    ELSE PopTrailing(CleanLines(Strip(raw), <<>>))

sanitize_response(raw) ==
    IF raw = <<>> THEN raw
    ELSE Strip(PopTrailing(CleanLines(Strip(raw), <<>>)))

----------------------------------------------------------------------------
(* Parsed values.  None is the absent value; json null parses to it. *)

Value(type, keys, repr) == [type |-> type, keys |-> keys, repr |-> repr]
None == Value("None", {}, "None")
ObjA == Value("object", {"a"}, "{a: 1}")
ObjB == Value("object", {"b"}, "{b: 2}")
ObjAB == Value("object", {"a", "b"}, "{a: 1, b: 2}")
StrValue(text) == Value("string", {}, "text")

\* json.loads(sanitized): the value, or JSONDecodeError
JsonOk(sanitized) == Len(sanitized) = 1 /\ sanitized[1] \in {JsonA, JsonB, NullLine}

JsonLoads(sanitized) ==
    CASE sanitized[1] = JsonA -> ObjA
      [] sanitized[1] = JsonB -> ObjB
      [] OTHER -> None

\* block mapping entries "key: value"
MappingLines == {YamlA, YamlB, YamlResult}

\* lines that hold ": ", which ends a plain scalar and starts a mapping value
HasValueIndicator(line) == line \in MappingLines \cup {JsonA, JsonB, IndentB, TrailA}

\* a line as the YAML scanner reads it at indentation 0: trailing blanks and
\* an indentation shared by the whole document do not count
Unindented(line) ==
    CASE line = IndentB -> YamlB
      [] line = TrailA -> YamlA
      [] OTHER -> line
LineKey(line) == CASE line = YamlA -> "a" [] line = YamlB -> "b" [] OTHER -> "result"

NonBlank(text) == SelectSeq(text, LAMBDA l : ~IsBlank(l))

MappingValue(content) ==
    LET keys == {LineKey(content[i]) : i \in 1..Len(content)}
    IN  CASE keys = {"a"} -> ObjA
          [] keys = {"b"} -> ObjB
          [] keys = {"a", "b"} -> ObjAB
          [] OTHER -> Value("object", keys, "{...}")

\* yaml.safe_load(sanitized): [kind |-> "value" | "YAMLError" | "ValueError"].
\* A document whose lines are not all indented alike is a YAMLError.  A
\* document that starts with a mapping entry must consist of mapping
\* entries; one that starts with a flow mapping or a plain scalar may hold
\* nothing else than the continuation of the scalar, which ": " ends; an
\* unclosed flow mapping is a YAMLError; a lone "~" or "null" is None; a lone
\* plain scalar that matches the timestamp pattern with an impossible date
\* makes the constructor raise ValueError.
YamlSafeLoad(sanitized) ==
    LET lines == NonBlank(sanitized)
        indented == {i \in 1..Len(lines) : lines[i] = IndentB}
        content == [i \in 1..Len(lines) |-> Unindented(lines[i])]
        first == content[1]
        rest == Tail(content)
        all_mapping == \A i \in 1..Len(content) : content[i] \in MappingLines
        no_mapping == \A i \in 1..Len(rest) : ~HasValueIndicator(rest[i])
    IN  IF indented # {} /\ indented # 1..Len(lines)
        THEN [kind |-> "YAMLError", value |-> None]
        ELSE IF first \in MappingLines THEN
            IF all_mapping THEN [kind |-> "value", value |-> MappingValue(content)]
            ELSE [kind |-> "YAMLError", value |-> None]
        ELSE IF first = Broken THEN [kind |-> "YAMLError", value |-> None]
        ELSE IF first \in {JsonA, JsonB} THEN
            IF rest = <<>>
            THEN [kind |-> "value", value |-> JsonLoads(content)]
            ELSE [kind |-> "YAMLError", value |-> None]
        ELSE IF rest = <<>> THEN
            CASE first \in {NullLine, Tilde} -> [kind |-> "value", value |-> None]
              [] first = BadDate -> [kind |-> "ValueError", value |-> None]
              [] OTHER -> [kind |-> "value", value |-> StrValue(content)]
        ELSE IF no_mapping THEN [kind |-> "value", value |-> StrValue(content)]
        ELSE [kind |-> "YAMLError", value |-> None]

----------------------------------------------------------------------------
(* Structured parser: schema_validator.py validate_structured_response *)

\* a returned dict: the keys it carries and their values
ValidationResult(valid, data, format, errors, sanitized, keys) ==
    [raised |-> FALSE, exc |-> "", valid |-> valid, data |-> data,
     format |-> format, errors |-> errors, sanitized_response |-> sanitized,
     keys |-> keys]

NoResult == ValidationResult(FALSE, None, "", <<>>, <<>>, {})

Raised(exc) == [NoResult EXCEPT !.raised = TRUE, !.exc = exc]

AllKeys == {"valid", "data", "format", "errors", "sanitized_response"}

\* mutant: a YAML document that loads as None counts as parsed
validate_structured_response_NullIsData(raw) ==
    LET sanitized == sanitize_response(raw)
        yaml == YamlSafeLoad(sanitized)
    IN  IF sanitized = <<>> THEN
            ValidationResult(FALSE, None, "unknown",
                <<"Empty response after sanitization">>, <<>>,
                AllKeys \ {"sanitized_response"})
        ELSE IF JsonOk(sanitized) THEN
            ValidationResult(TRUE, JsonLoads(sanitized), "json", <<>>, sanitized, AllKeys)
        ELSE IF yaml.kind = "ValueError" THEN Raised("ValueError")
        ELSE IF yaml.kind = "YAMLError" THEN Raised("UnboundLocalError")
        ELSE ValidationResult(TRUE, yaml.value, "yaml", <<>>, sanitized, AllKeys)

\* json_err is unbound once the 'except ... as json_err' clause is left, so
\* the handler of yaml.YAMLError raises UnboundLocalError when it reads it;
\* only yaml.YAMLError is handled, the constructor's ValueError is not
validate_structured_response(raw) ==
    LET sanitized == sanitize_response(raw)
        yaml == YamlSafeLoad(sanitized)
    IN  IF sanitized = <<>> THEN
            ValidationResult(FALSE, None, "unknown",
                <<"Empty response after sanitization">>, <<>>,
                AllKeys \ {"sanitized_response"})
        ELSE IF JsonOk(sanitized) THEN
            ValidationResult(TRUE, JsonLoads(sanitized), "json", <<>>, sanitized, AllKeys)
        ELSE IF yaml.kind = "ValueError" THEN Raised("ValueError")
        ELSE IF yaml.kind = "YAMLError" THEN Raised("UnboundLocalError")
        ELSE IF yaml.value # None THEN
            ValidationResult(TRUE, yaml.value, "yaml", <<>>, sanitized, AllKeys)
        ELSE
            ValidationResult(FALSE, None, "unknown",
                <<"Response is neither valid JSON nor YAML after sanitization">>,
                sanitized, AllKeys)

----------------------------------------------------------------------------
(* Prompts: prompts.py get_prompts stores a plain template (str) or a      *)
(* {system, user} dict; a part is stored only when its file is not empty,  *)
(* so <<>> stands for a missing key.                                       *)

StrPrompt(text) == [kind |-> "str", text |-> text, system |-> <<>>, user |-> <<>>]
DictPrompt(system, user) == [kind |-> "dict", text |-> <<>>, system |-> system, user |-> user]

Names == {"greet", "pair", "sysonly", "ghost", "bare"}

PromptTable ==
    [n \in {"greet", "pair", "sysonly", "bare"} |->
        CASE n = "greet" -> StrPrompt(<<"Hi", LB, "name", RB>>)
          [] n = "pair" -> DictPrompt(<<"Sys", LB, "topic", RB>>, <<"Ask", LB, "name", RB>>)
          [] n = "sysonly" -> DictPrompt(<<"Sys">>, <<>>)
          [] OTHER -> StrPrompt(<<"Summarize">>)]

\* str(base_prompt) of a dict prompt: the repr of the dict, in braces
ReprPrompt(prompt) ==
    <<LB>> \o (IF prompt.system # <<>> THEN <<"'system': '...'">> ELSE <<>>)
           \o (IF prompt.user # <<>> THEN <<"'user': '...'">> ELSE <<>>) \o <<RB>>

NoData == [k \in {} |-> <<>>]
DataMaps == {NoData, [k \in {<<"name">>} |-> <<"Bob">>]}

----------------------------------------------------------------------------
(* Schema Store: schema_validator.py *)

\* a stored schema: the text of a .schema.txt exemplar, or a dict given to
\* add_schema (text is then its str(), required its "required" list)
TextSchema(text) ==
    [kind |-> "text", text |-> text, required |-> {}, wellformed |-> TRUE]
DictSchema(text, required, wellformed) ==
    [kind |-> "dict", text |-> text, required |-> required, wellformed |-> wellformed]

ExemplarYaml == TextSchema(<<YamlA>>)
ExemplarJson == TextSchema(<<LB, "\"a\": 1", RB>>)
SchemaRequireA == DictSchema(<<LB, "'type': 'object', 'required': ['a']", RB>>, {"a"}, TRUE)
SchemaEmpty == DictSchema(<<LB, RB>>, {}, TRUE)
SchemaMalformed == DictSchema(<<LB, "'type': 12", RB>>, {}, FALSE)

NoSchema == TextSchema(<<>>)

\* truth value of a stored content: an empty dict is falsy
Truthy(schema) == schema.text # <<>> /\ schema # SchemaEmpty

\* the store after load_schemas_from_folder: exemplar texts only
LoadedSchemas ==
    [n \in {"greet", "pair", "sysonly", "ghost"} |->
        IF n = "pair" THEN ExemplarJson ELSE ExemplarYaml]

has_schema_for_prompt(store, prompt_name) == prompt_name \in DOMAIN store

\* self.schemas.get(prompt_name)
get_schema_content(store, prompt_name) ==
    IF prompt_name \in DOMAIN store THEN store[prompt_name] ELSE NoSchema

\* Draft7Validator.check_schema(schema) passes
check_schema(schema) == schema.wellformed

\* mutant: storing an entry rebuilds the store with that entry alone
StoreSchema_Rebuilt(store, name, schema) == [n \in {name} |-> schema]

\* the store after add_schema(name, schema) stored the schema
StoreSchema(store, name, schema) ==
    [n \in DOMAIN store \cup {name} |-> IF n = name THEN schema ELSE store[n]]

\* mutant: only the type rule is applied, the required list is ignored
Conforms_TypeOnly(data, schema) ==
    schema.required # {} => data.type = "object"

\* jsonschema validate(instance=data, schema=schema) passes
Conforms(data, schema) ==
    schema.required # {} => (data.type = "object" /\ schema.required \subseteq data.keys)

----------------------------------------------------------------------------
(* Prompt augmentation: schema_validator.py create_schema_prompt *)

BaseField == "{base_prompt}"
SchemaField == "{schema_example}"
OtherField == "{style}"

DefaultTemplate ==
    <<BaseField, NL, NL, "Please respond with structured data in the following format:",
      NL, NL, SchemaField, NL, NL,
      "Return only the structured data without any additional text or explanations.">>

CustomTemplate == <<BaseField, NL, "Answer with JSON only.">>
BadTemplate == <<BaseField, NL, OtherField>>

Templates == {NoTemplate, CustomTemplate, BadTemplate}

\* template.format(base_prompt=..., schema_example=...): FormatError when the
\* template names another field (KeyError)
RECURSIVE TemplateFormat(_, _, _)
TemplateFormat(template, base_prompt, schema_text) ==
    IF template = <<>> THEN <<>>
    ELSE LET rest == TemplateFormat(Tail(template), base_prompt, schema_text)
             part == CASE Head(template) = BaseField -> base_prompt
                       [] Head(template) = SchemaField -> schema_text
                       [] OTHER -> <<Head(template)>>
         IN  IF Head(template) = OtherField \/ rest = FormatError THEN FormatError
             ELSE part \o rest

create_schema_prompt(base_prompt, schema, template) ==
    IF template # NoTemplate
    THEN TemplateFormat(template, base_prompt, schema.text)
    ELSE TemplateFormat(DefaultTemplate, base_prompt, schema.text)

----------------------------------------------------------------------------
(* Model-invocation collaborator: chat.py chat *)

Message(role, content) == [role |-> role, content |-> content]

\* mutant: the placeholder check is left out, str.format alone decides
required_keys_Unchecked(prompt) == {}

\* keys the placeholder check requires for a prompt
required_keys(prompt) ==
    IF prompt.kind = "dict" THEN extract_placeholders(prompt.user)
    ELSE extract_placeholders(prompt.text)

\* the messages chat() builds, before the request is sent:
\* [send |-> TRUE, messages] or [send |-> FALSE] when chat() returns None early
NoSend == [send |-> FALSE, messages |-> <<>>]

ChatPlan(prompt_name, data, has_client, prompt_table) ==
    IF ~has_client THEN NoSend
    ELSE IF prompt_name \notin DOMAIN prompt_table THEN NoSend
    ELSE LET prompt == prompt_table[prompt_name]
             template == IF prompt.kind = "dict" THEN prompt.user ELSE prompt.text
             content == Format(template, data, 1)
             system == IF prompt.kind = "dict" /\ prompt.system # <<>>
                       THEN <<Message("system", prompt.system)>> ELSE <<>>
             user == IF template # <<>> THEN <<Message("user", content)>> ELSE <<>>
         IN  IF required_keys(prompt) \ DOMAIN data # {} THEN NoSend
             ELSE IF template # <<>> /\ content = FormatError THEN NoSend
             ELSE IF system \o user = <<>> THEN NoSend
             ELSE [send |-> TRUE, messages |-> system \o user]

\* what client.chat.completions.create does: it returns a completion with a
\* text, returns one without content, or raises
Responses ==
    {<<LeadIn, JsonFence, JsonA, Fence>>, <<JsonB>>, <<YamlA, YamlB>>, <<Broken>>,
     <<Prose>>, <<Fence>>, <<BadDate>>, <<NullLine>>, <<Blank>>}

Vendor(kind, text) == [kind |-> kind, text |-> text]
NoVendor == Vendor("not called", <<>>)
VendorOutcomes ==
    {Vendor("content", r) : r \in Responses}
        \cup {Vendor("raise", <<>>), Vendor("no content", <<>>)}

\* the value chat() returns: None, or the stripped content
Response(some, text) == [some |-> some, text |-> text]
NoneResponse == Response(FALSE, <<>>)

ChatReturn(plan, vendor) ==
    IF plan.send /\ vendor.kind = "content"
    THEN Response(TRUE, Strip(vendor.text))
    ELSE NoneResponse

\* mutant: 'response is None' instead of 'not response'
IsEmpty_NoneOnly(chat_response) == ~chat_response.some

\* not response
IsEmpty(chat_response) == ~chat_response.some \/ chat_response.text = <<>>

----------------------------------------------------------------------------
(* Values AIManager.chat returns.  keys is the set of keys of a returned   *)
(* dict; a field outside keys holds a filler.                              *)

Result(kind, error, detail, keys) ==
    [kind |-> kind, error |-> error, detail |-> detail, keys |-> keys,
     attempts |-> 0, last_response |-> <<>>, validation_result |-> NoResult,
     prompt_name |-> "", data |-> None, text |-> <<>>]

NotReturned == Result("pending", "", "", {})

\* {'error': f"<error> '{prompt_name}'", 'prompt_name': prompt_name}
ErrorDict(error, prompt_name) ==
    [Result("error", error, prompt_name, {"error", "prompt_name"})
        EXCEPT !.prompt_name = prompt_name]

NoSchemaError == "No schema available for prompt"
NoContentError == "Schema content not found for prompt"
NoPromptError == "Prompt not found"
UnexpectedError == "Unexpected failure in validation loop"
ValidationFailedError == "Validation failed after all retries"
ExceptionError == "Exception after all retries"

\* lines 165-171
ValidationFailure(attempts, last_response, validation_result, prompt_name) ==
    [Result("error", ValidationFailedError, "",
            {"error", "attempts", "last_response", "validation_result", "prompt_name"})
        EXCEPT !.attempts = attempts, !.last_response = last_response,
               !.validation_result = validation_result, !.prompt_name = prompt_name]

\* lines 176-180
ExceptionFailure(attempts, exc, prompt_name) ==
    [Result("error", ExceptionError, exc, {"error", "attempts", "prompt_name"})
        EXCEPT !.attempts = attempts, !.prompt_name = prompt_name]

\* lines 182-185
UnexpectedFailure(prompt_name) ==
    [Result("error", UnexpectedError, "", {"error", "prompt_name"})
        EXCEPT !.prompt_name = prompt_name]

\* return validation_result['data']
Success(data) == [Result("data", "", "", {}) EXCEPT !.data = data]

\* what chat() returned, returned as is by the non-validated path
RawResult(chat_response) ==
    IF chat_response.some
    THEN [Result("text", "", "", {}) EXCEPT !.text = chat_response.text]
    ELSE Result("none", "", "", {})

\* an exception that leaves AIManager.chat
RaisedResult(exc) == Result("raised", "", exc, {})

----------------------------------------------------------------------------
(* AIManager: ai_manager.py *)

Args(prompt_name, data, validate) ==
    [prompt_name |-> prompt_name, data |-> data, validate |-> validate]

NoArgs == Args("", NoData, FALSE)

\* getattr(self.config, 'max_validation_retries', 3)
MaxRetriesOf(configured) ==
    IF configured = {} THEN DefaultMaxRetries ELSE CHOOSE n \in configured : TRUE

\* mutant: the schema check before the loop is left out
SchemaMissing_Unchecked(validate, store, prompt_name) == FALSE

\* mutant: the schema check is made whether or not validation is requested
SchemaMissing_AlwaysChecked(validate, store, prompt_name) ==
    ~has_schema_for_prompt(store, prompt_name)

\* line 61: validation requested and no schema for the prompt
SchemaMissing(validate, store, prompt_name) ==
    validate /\ ~has_schema_for_prompt(store, prompt_name)

\* lines 111-118: the user-facing text of the base prompt
BaseUserPrompt(base_prompt) ==
    IF base_prompt.kind = "dict" THEN
        IF base_prompt.user # <<>> THEN base_prompt.user ELSE ReprPrompt(base_prompt)
    ELSE base_prompt.text

\* lines 129-133: the prompt with its user-facing part replaced
ModifiedPrompt(base_prompt, combined_prompt) ==
    IF base_prompt.kind = "dict" THEN [base_prompt EXCEPT !.user = combined_prompt]
    ELSE StrPrompt(combined_prompt)

\* mutant: the loop runs range(max_retries), one attempt short
HasNextAttempt_OneShort(n, retries) == n + 1 < retries

\* mutant: the loop runs range(max_retries + 2), one attempt more
HasNextAttempt_OneMore(n, retries) == n + 1 < retries + 2

\* line 136: range(max_retries + 1) has an iteration after this one
HasNextAttempt(n, retries) == n + 1 < retries + 1

\* mutant: the last attempt is taken to be attempt + 1 == max_retries
IsLastAttempt_OffByOne(n, retries) == n + 1 = retries

\* lines 164, 175: attempt == max_retries
IsLastAttempt(n, retries) == n = retries

\* lines 139-140: temp_prompts
TempPrompts(prompt_table, prompt_name, prompt) ==
    [n \in DOMAIN prompt_table \cup {prompt_name} |->
        IF n = prompt_name THEN prompt ELSE prompt_table[n]]

CallRecord(prompt_name, data, prompt) ==
    [prompt_name |-> prompt_name, data |-> data, prompt |-> prompt]

\* lines 95-134 of _chat_with_validation: the part before the retry loop
BeforeLoop(prompt_name) ==
    LET content == get_schema_content(schemas, prompt_name)
        base_prompt == prompts[prompt_name]
        combined_prompt ==
            create_schema_prompt(BaseUserPrompt(base_prompt), content, config_template)
        returns(value) ==
            /\ result' = value
            /\ pc' = "returned"
            /\ UNCHANGED <<modified_prompt, attempt>>
    IN  /\ schema_lookups' = 2
        /\ schema_content' = content
        /\ IF ~Truthy(content)
           THEN returns(ErrorDict(NoContentError, prompt_name))
           ELSE IF prompt_name \notin DOMAIN prompts
           THEN returns(ErrorDict(NoPromptError, prompt_name))
           ELSE IF combined_prompt = FormatError
           THEN returns(RaisedResult("KeyError"))
           ELSE IF ~(0 < MaxRetriesOf(config_retries) + 1)
           THEN returns(UnexpectedFailure(prompt_name))
           ELSE /\ modified_prompt' = ModifiedPrompt(base_prompt, combined_prompt)
                /\ attempt' = 0
                /\ pc' = "loop"
                /\ UNCHANGED result

\* AIManager.chat(prompt_name, data, validate=validate) up to the first attempt
\* of the retry loop; the whole call when it does not validate
Chat(prompt_name, data, validate) ==
    /\ pc = "idle"
    /\ args' = Args(prompt_name, data, validate)
    /\ max_retries' = MaxRetriesOf(config_retries)
    /\ outcomes' = <<>>
    /\ validations' = 0
    /\ response' = NoneResponse
    /\ UNCHANGED <<config_retries, config_template, client, prompts, schemas, add_raised,
                   op_call, op_ret>>
    /\ IF SchemaMissing(validate, schemas, prompt_name) THEN
            /\ result' = ErrorDict(NoSchemaError, prompt_name)
            /\ pc' = "returned"
            /\ schema_lookups' = 1
            /\ chat_calls' = <<>>
            /\ requests' = <<>>
            /\ UNCHANGED <<schema_content, modified_prompt, attempt>>
       ELSE IF validate THEN
            /\ BeforeLoop(prompt_name)
            /\ chat_calls' = <<>>
            /\ requests' = <<>>
       ELSE LET plan == ChatPlan(prompt_name, data, client, prompts)
            IN  \E vendor \in IF plan.send THEN VendorOutcomes ELSE {NoVendor} :
                    /\ result' = RawResult(ChatReturn(plan, vendor))
                    /\ pc' = "returned"
                    /\ schema_lookups' = 0
                    /\ chat_calls' = <<CallRecord(prompt_name, data,
                            IF prompt_name \in DOMAIN prompts
                            THEN prompts[prompt_name] ELSE StrPrompt(<<>>))>>
                    /\ requests' = IF plan.send THEN <<plan.messages>> ELSE <<>>
                    /\ UNCHANGED <<schema_content, modified_prompt, attempt>>

\* mutant: the augmented prompt is rebuilt in every attempt from the schema
\* the store holds then
temp_prompts_Rebuilt ==
    TempPrompts(prompts, args.prompt_name,
        ModifiedPrompt(prompts[args.prompt_name],
            create_schema_prompt(BaseUserPrompt(prompts[args.prompt_name]),
                get_schema_content(schemas, args.prompt_name), config_template)))

\* lines 139-140: the prompt table of an attempt, a copy of self.prompts with
\* the modified prompt under the prompt name
temp_prompts == TempPrompts(prompts, args.prompt_name, modified_prompt)

\* mutant: temp_prompts is self.prompts itself, not a copy of it
prompts_after_attempt_Aliased(prompt_table, temp) == temp

\* lines 139-140: self.prompts after an attempt; temp_prompts is
\* self.prompts.copy(), so the assignment temp_prompts[prompt_name] = ... does
\* not reach self.prompts, and modified_prompt is base_prompt.copy() (line 130)
prompts_after_attempt(prompt_table, temp) == prompt_table

\* mutant: only a JSON document ends the loop
Outcome_JsonOnly(chat_response, validation_result) ==
    IF ~chat_response.some \/ chat_response.text = <<>> THEN "empty"
    ELSE IF validation_result.raised THEN "fault"
    ELSE IF validation_result.valid /\ validation_result.format = "json" THEN "valid"
    ELSE "invalid"

\* lines 150-160: how an attempt ends
Outcome(chat_response, validation_result) ==
    IF IsEmpty(chat_response) THEN "empty"
    ELSE IF validation_result.raised THEN "fault"
    ELSE IF validation_result.valid THEN "valid"
    ELSE "invalid"

\* one iteration of the retry loop, lines 136-180, and the return after the
\* loop (lines 182-185) when the last iteration falls through
Attempt ==
    /\ pc = "loop"
    /\ LET prompt_name == args.prompt_name
           plan == ChatPlan(prompt_name, args.data, client, temp_prompts)
           next_or(value) ==
               IF HasNextAttempt(attempt, max_retries)
               THEN /\ attempt' = attempt + 1
                    /\ UNCHANGED <<pc, result>>
               ELSE /\ result' = value
                    /\ pc' = "returned"
                    /\ UNCHANGED attempt
           returns(value) ==
               /\ result' = value
               /\ pc' = "returned"
               /\ UNCHANGED attempt
       IN  \E vendor \in IF plan.send THEN VendorOutcomes ELSE {NoVendor} :
             LET chat_response == ChatReturn(plan, vendor)
                 validation_result == validate_structured_response(chat_response.text)
                 outcome == Outcome(chat_response, validation_result)
             IN  /\ chat_calls' = Append(chat_calls,
                        CallRecord(prompt_name, args.data, temp_prompts[prompt_name]))
                 /\ requests' = IF plan.send THEN Append(requests, plan.messages)
                                ELSE requests
                 /\ response' = chat_response
                 /\ outcomes' = Append(outcomes, outcome)
                 /\ validations' = IF outcome = "empty" THEN validations
                                   ELSE validations + 1
                 /\ CASE outcome = "empty" ->
                            next_or(UnexpectedFailure(prompt_name))
                      [] outcome = "valid" ->
                            returns(Success(validation_result.data))
                      [] outcome = "invalid" ->
                            IF IsLastAttempt(attempt, max_retries)
                            THEN returns(ValidationFailure(attempt + 1,
                                     chat_response.text, validation_result, prompt_name))
                            ELSE next_or(UnexpectedFailure(prompt_name))
                      [] OTHER ->
                            IF IsLastAttempt(attempt, max_retries)
                            THEN returns(ExceptionFailure(attempt + 1,
                                     validation_result.exc, prompt_name))
                            ELSE next_or(UnexpectedFailure(prompt_name))
    /\ prompts' = prompts_after_attempt(prompts, temp_prompts)
    /\ UNCHANGED <<config_retries, config_template, client, schemas,
                   add_raised, args, max_retries, schema_content, modified_prompt,
                   schema_lookups, op_call, op_ret>>

\* names and schemas given to add_schema
AddNames == {"pair", "bare"}
AddSchemas == {SchemaRequireA, SchemaEmpty, SchemaMalformed}

\* mutant: the schema is stored before it is checked
AddSchema_StoredFirst(name, schema) ==
    /\ schemas' = StoreSchema(schemas, name, schema)
    /\ add_raised' = ~check_schema(schema)

\* lines 106-113 of add_schema: check_schema, then the assignment; the except
\* clause logs and raises again
AddSchema(name, schema) ==
    IF check_schema(schema)
    THEN /\ schemas' = StoreSchema(schemas, name, schema)
         /\ add_raised' = FALSE
    ELSE /\ add_raised' = TRUE
         /\ UNCHANGED schemas

\* SchemaValidator.add_schema(name, schema), lines 98-113; it may run between
\* two attempts of a validated chat
add_schema(name, schema) ==
    /\ AddSchema(name, schema)
    /\ UNCHANGED <<config_retries, config_template, client, prompts, pc, args,
                   max_retries, schema_content, modified_prompt, response, attempt,
                   result, chat_calls, requests, validations, outcomes,
                   schema_lookups, op_call, op_ret>>

\* the caller takes the returned value; the locals of the call are gone
Return ==
    /\ pc = "returned"
    /\ pc' = "idle"
    /\ args' = NoArgs
    /\ max_retries' = 0
    /\ schema_content' = NoSchema
    /\ modified_prompt' = StrPrompt(<<>>)
    /\ response' = NoneResponse
    /\ attempt' = 0
    /\ result' = NotReturned
    /\ chat_calls' = <<>>
    /\ requests' = <<>>
    /\ validations' = 0
    /\ outcomes' = <<>>
    /\ schema_lookups' = 0
    /\ UNCHANGED <<config_retries, config_template, client, prompts, schemas, add_raised,
                   op_call, op_ret>>

\* no SchemaValidator method has been called on its own
NoCall == [op |-> "none"]
NoReturn == [returned |-> FALSE]

\* AIManager.__init__, lines 28-31
ManagerInit ==
    /\ config_retries \in {{}} \cup {{n} : n \in 0..MaxConfigRetries}
    /\ config_template \in Templates
    /\ client \in BOOLEAN
    /\ prompts = PromptTable
    /\ schemas = LoadedSchemas
    /\ add_raised = FALSE
    /\ pc = "idle"
    /\ args = NoArgs
    /\ max_retries = 0
    /\ schema_content = NoSchema
    /\ modified_prompt = StrPrompt(<<>>)
    /\ response = NoneResponse
    /\ attempt = 0
    /\ result = NotReturned
    /\ chat_calls = <<>>
    /\ requests = <<>>
    /\ validations = 0
    /\ outcomes = <<>>
    /\ schema_lookups = 0

Init ==
    /\ ManagerInit
    /\ op_call = NoCall
    /\ op_ret = NoReturn

Next ==
    \/ \E prompt_name \in Names, data \in DataMaps, validate \in BOOLEAN :
            Chat(prompt_name, data, validate)
    \/ Attempt
    \/ \E name \in AddNames, schema \in AddSchemas : add_schema(name, schema)
    \/ Return

Spec == Init /\ [][Next]_vars

----------------------------------------------------------------------------
(* Properties of validated chat *)

Last(seq) == seq[Len(seq)]

\* a chat() call was made in this step
ChatCalled == Len(chat_calls') = Len(chat_calls) + 1

\* an attempt of the retry loop ran in this step
AttemptRan == pc = "loop" /\ ChatCalled

\* the placeholders of the original user-facing template of the called prompt
OriginalPlaceholders ==
    IF args.prompt_name \in DOMAIN prompts
    THEN required_keys(prompts[args.prompt_name]) ELSE {}

\* C1: chat(validate=True) for a prompt name that has no Schema Store entry
\* returns at once an error object whose error is 'No schema available ...';
\* chat() and the vendor are never called, no attempt of the retry loop runs,
\* and the store is read exactly once.
C1_NoSchemaFailsBeforeLoop ==
    [][(pc = "idle" /\ pc' # "idle" /\ args'.validate
            /\ args'.prompt_name \notin DOMAIN schemas)
        => /\ pc' = "returned"
           /\ result'.kind = "error"
           /\ result'.error = NoSchemaError
           /\ result'.detail = args'.prompt_name
           /\ "error" \in result'.keys
           /\ chat_calls' = <<>>
           /\ requests' = <<>>
           /\ outcomes' = <<>>
           /\ schema_lookups' = 1]_vars

C1_Witness ==
    /\ pc = "returned" /\ args.validate
    /\ args.prompt_name \notin DOMAIN schemas
    /\ result.error = NoSchemaError
    /\ chat_calls = <<>>

C3_StopsAtFirstValid ==
    (/\ pc \in {"loop", "returned"} /\ args.validate /\ chat_calls # <<>>
     /\ response.some /\ response.text # <<>>
     /\ ~validate_structured_response(response.text).raised
     /\ validate_structured_response(response.text).valid)
    => /\ pc = "returned"
       /\ Len(chat_calls) = Len(outcomes)
       /\ Len(chat_calls) = attempt + 1
       /\ Len(chat_calls) <= max_retries + 1
       /\ \A i \in 1..(Len(outcomes) - 1) : outcomes[i] # "valid"
       /\ result.kind = "data"
       /\ result.data = validate_structured_response(response.text).data

C3_Witness ==
    /\ pc = "returned" /\ max_retries = 3
    /\ outcomes = <<"invalid", "empty", "valid">>
    /\ Len(chat_calls) = 3
    /\ result.kind = "data" /\ result.data = ObjAB

\* C4 (as claimed): the data a validated chat returns on its success path
\* conforms to the schema registered for the prompt (the content the call
\* read from the Schema Store).
C4_SuccessConformsToSchema ==
    (pc = "returned" /\ args.validate /\ result.kind = "data")
    => Conforms(result.data, schema_content)

\* C5 (as claimed): a validated chat whose attempts all failed returns a
\* failure record that carries attempts = max_retries + 1, never the
\* 'Unexpected failure in validation loop' result.
C5_ExhaustionIsStructured ==
    (/\ pc = "returned" /\ args.validate /\ outcomes # <<>> /\ max_retries >= 0
     /\ \A i \in 1..Len(outcomes) : outcomes[i] # "valid")
    => /\ result.error # UnexpectedError
       /\ "attempts" \in result.keys
       /\ result.attempts = max_retries + 1

\* C6: a fault raised in an attempt that is not the last leaves the loop
\* running with the next attempt to make; a fault in the last attempt returns
\* a failure record with the fault's message, attempts = max_retries + 1 and
\* neither the validation result nor the last response.
C6_FaultIsCaughtPerAttempt ==
    [][(/\ AttemptRan
        /\ response'.some /\ response'.text # <<>>
        /\ validate_structured_response(response'.text).raised)
        => IF attempt < max_retries
           THEN /\ pc' = "loop"
                /\ attempt' = attempt + 1
                /\ attempt' <= max_retries
                /\ result' = result
           ELSE /\ pc' = "returned"
                /\ result'.kind = "error"
                /\ result'.error = ExceptionError
                /\ result'.detail = validate_structured_response(response'.text).exc
                /\ result'.attempts = max_retries + 1
                /\ result'.keys = {"error", "attempts", "prompt_name"}
                /\ result'.prompt_name = args.prompt_name]_vars

C6_Witness ==
    /\ pc = "returned" /\ max_retries = 1
    /\ outcomes = <<"fault", "fault">>
    /\ result.error = ExceptionError /\ result.attempts = 2
    /\ "validation_result" \notin result.keys

\* C7: an attempt whose chat() returned nothing (None or an empty text) is a
\* failed attempt: validate_structured_response is not run for it, nothing is
\* returned as data, and unless it was the last attempt the loop goes on to
\* the next one.
C7_EmptyResponseFastFails ==
    [][(AttemptRan /\ (~response'.some \/ response'.text = <<>>))
        => /\ validations' = validations
           /\ outcomes' = Append(outcomes, "empty")
           /\ result'.kind # "data"
           /\ attempt < max_retries =>
                (pc' = "loop" /\ attempt' = attempt + 1 /\ result' = result)]_vars

C7_Witness ==
    /\ pc = "returned"
    /\ outcomes = <<"empty", "valid">>
    /\ response.text # <<>>
    /\ validations = 1
    /\ Len(requests) = 2

\* C8: every chat() call of one validated chat gets the same prompt name, the
\* same data and the same prompt: the one computed before the first attempt
\* from the schema content read then, whose system part is the original one
\* and whose user part is the augmented prompt, whatever add_schema has
\* stored for the prompt name since.
C8_SamePromptEveryAttempt ==
    (args.validate /\ pc \in {"loop", "returned"} /\ chat_calls # <<>>)
    => LET base_prompt == prompts[args.prompt_name]
           augmented ==
               create_schema_prompt(BaseUserPrompt(base_prompt), schema_content,
                                    config_template)
       IN  \A i \in 1..Len(chat_calls) :
              /\ chat_calls[i].prompt_name = args.prompt_name
              /\ chat_calls[i].data = args.data
              /\ chat_calls[i].prompt = chat_calls[1].prompt
              /\ chat_calls[i].prompt.kind = base_prompt.kind
              /\ chat_calls[i].prompt.system = base_prompt.system
              /\ IF base_prompt.kind = "dict"
                 THEN chat_calls[i].prompt.user = augmented
                 ELSE chat_calls[i].prompt.text = augmented

C8_Witness ==
    /\ Len(chat_calls) >= 2 /\ args.validate
    /\ prompts[args.prompt_name].kind = "dict"
    /\ prompts[args.prompt_name].system # <<>>
    /\ get_schema_content(schemas, args.prompt_name) # schema_content
    /\ Truthy(get_schema_content(schemas, args.prompt_name))

\* C9: chat(validate=False) never enters the retry loop: it reads no schema,
\* calls chat() exactly once, sends at most one request and returns the text
\* chat() returned or None, never an error object; a missing prompt or a
\* missing data key gives None without a request.
C9_PlainChatBypassesLoop ==
    (pc # "idle" /\ ~args.validate)
    => /\ pc = "returned"
       /\ schema_lookups = 0
       /\ Len(chat_calls) = 1
       /\ Len(requests) <= 1
       /\ outcomes = <<>> /\ validations = 0 /\ attempt = 0
       /\ result.kind \in {"text", "none"}
       /\ result.keys = {}
       /\ (requests = <<>> => result.kind = "none")
       /\ (result.kind = "text" => \E r \in Responses : result.text = Strip(r))
       /\ (args.prompt_name \notin DOMAIN prompts
            \/ OriginalPlaceholders \ DOMAIN args.data # {})
          => (result.kind = "none" /\ requests = <<>>)

C9_Witness ==
    /\ pc = "returned" /\ ~args.validate
    /\ result.kind = "text" /\ result.text = <<JsonB>>
    /\ args.prompt_name \notin DOMAIN schemas
    /\ Len(chat_calls) = 1

\* C10 (as claimed): in validated chat a data map that lacks a key for a
\* placeholder of the prompt is a pre-loop error: the call returns without
\* entering the retry loop, without a chat() call and without a request.
C10_MissingKeysFailBeforeLoop ==
    (/\ pc # "idle" /\ args.validate
     /\ OriginalPlaceholders \ DOMAIN args.data # {})
    => /\ pc = "returned"
       /\ result.kind = "error"
       /\ chat_calls = <<>>
       /\ requests = <<>>

----------------------------------------------------------------------------
(* chat() over arbitrary templates: the prompt table holds one prompt "t"  *)
(* whose template is any text over TemplateTokens                          *)

\* longest template of the prompt tables SpecChat starts from
MaxTemplateLen == 5

TemplateTokens == {LB, RB, "name", "Hi"}

\* the texts of at most n tokens
RECURSIVE TextsOver(_, _)
TextsOver(tokens, n) ==
    IF n = 0 THEN {<<>>}
    ELSE LET shorter == TextsOver(tokens, n - 1)
         IN  shorter \cup {Append(t, x) : t \in {s \in shorter : Len(s) = n - 1},
                                          x \in tokens}

\* a prompt file with no content is not loaded
ChatTemplates == TextsOver(TemplateTokens, MaxTemplateLen) \ {<<>>}

ChatPrompts ==
    {StrPrompt(t) : t \in ChatTemplates}
        \cup {DictPrompt(<<"Sys", LB, "topic", RB>>, t) : t \in ChatTemplates}

TemplateName == "t"

InitChat ==
    /\ config_retries = {}
    /\ config_template = NoTemplate
    /\ client \in BOOLEAN
    /\ prompts \in {[n \in {TemplateName} |-> p] : p \in ChatPrompts}
    /\ schemas = LoadedSchemas
    /\ add_raised = FALSE
    /\ pc = "idle"
    /\ args = NoArgs
    /\ max_retries = 0
    /\ schema_content = NoSchema
    /\ modified_prompt = StrPrompt(<<>>)
    /\ response = NoneResponse
    /\ attempt = 0
    /\ result = NotReturned
    /\ chat_calls = <<>>
    /\ requests = <<>>
    /\ validations = 0
    /\ outcomes = <<>>
    /\ schema_lookups = 0
    /\ op_call = NoCall
    /\ op_ret = NoReturn

NextChat ==
    \/ \E data \in DataMaps : Chat(TemplateName, data, FALSE)
    \/ Return

SpecChat == InitChat /\ [][NextChat]_vars

\* the template the placeholder check reads: the user part of a pair
ActiveTemplate(prompt) == IF prompt.kind = "dict" THEN prompt.user ELSE prompt.text

\* part occurs in text as a run of consecutive tokens
Occurs(part, text) ==
    \E i \in 1..Len(text) :
        i + Len(part) - 1 <= Len(text) /\ SubSeq(text, i, i + Len(part) - 1) = part

\* C11: when some placeholder {name} extracted from the active template (the
\* plain template, or the user part of a system/user pair) is not a key of
\* the data map, chat() returns None and client.chat.completions.create is
\* not invoked.
C11_MissingKeySendsNothing ==
    (/\ pc = "returned" /\ ~args.validate
     /\ args.prompt_name \in DOMAIN prompts
     /\ extract_placeholders(ActiveTemplate(prompts[args.prompt_name]))
            \ DOMAIN args.data # {})
    => /\ result.kind = "none"
       /\ requests = <<>>

C11_Witness ==
    /\ pc = "returned" /\ client
    /\ prompts[TemplateName] = StrPrompt(<<LB, LB, "name", RB, RB>>)
    /\ args.data = NoData
    /\ result.kind = "none"
    /\ requests = <<>>

\* C12 (as claimed): when every placeholder extracted from the template is a
\* key of the data map, chat() builds and sends the request, and the
\* substituted text holds no {name} token for a name that is a key of the
\* data map.
C12_CoveredTemplateIsSent ==
    (/\ pc = "returned" /\ ~args.validate /\ client
     /\ args.prompt_name \in DOMAIN prompts
     /\ extract_placeholders(ActiveTemplate(prompts[args.prompt_name]))
            \subseteq DOMAIN args.data)
    => /\ Len(requests) = 1
       /\ \A key \in DOMAIN args.data :
            ~Occurs(<<LB>> \o key \o <<RB>>, Last(requests[1]).content)

----------------------------------------------------------------------------
(* Validated chat over every combination of prompt table and Schema Store  *)
(* entry: "ghost" has a schema and no prompt, "bare" a prompt and no       *)
(* schema, "nobody" neither; add_schema may replace the schema of "ghost"  *)

CallNames == Names \cup {"nobody"}

InitPreLoop ==
    /\ Init
    /\ config_retries = {0}
    /\ config_template = NoTemplate
    /\ client

NextPreLoop ==
    \/ \E prompt_name \in CallNames, data \in DataMaps : Chat(prompt_name, data, TRUE)
    \/ Attempt
    \/ \E schema \in AddSchemas : pc = "idle" /\ add_schema("ghost", schema)
    \/ Return

SpecPreLoop == InitPreLoop /\ [][NextPreLoop]_vars

\* C13 (as claimed): chat(validate=True) for a prompt name that has a Schema
\* Store entry and no prompt returns, before the retry loop and with no
\* chat() call and no request, the error object "Prompt '<name>' not found";
\* when the name has neither schema nor prompt the 'No schema available'
\* error is returned instead.
C13_PromptNotFoundBeforeLoop ==
    [][(/\ pc = "idle" /\ pc' # "idle" /\ args'.validate
        /\ args'.prompt_name \notin DOMAIN prompts)
        => /\ pc' = "returned"
           /\ result'.kind = "error"
           /\ result'.keys = {"error", "prompt_name"}
           /\ result'.detail = args'.prompt_name
           /\ chat_calls' = <<>>
           /\ requests' = <<>>
           /\ outcomes' = <<>>
           /\ result'.error = (IF has_schema_for_prompt(schemas, args'.prompt_name)
                               THEN NoPromptError ELSE NoSchemaError)]_vars

----------------------------------------------------------------------------
(* The sanitizer and the parser on their own, over every response of at    *)
(* most MaxLines lines                                                     *)

\* longest response SpecText starts from
MaxLines == 3

TextLines ==
    {Fence, LeadIn, HeresResult, TheResponseIs, JsonA, NullLine, YamlA, IndentB,
     TrailA, YamlResult, Broken, Tilde, BadDate, Blank}

ResponseTexts == TextsOver(TextLines, MaxLines)

\* the lines of the responses given to the parser
ParserLines == TextLines \ {TheResponseIs}

\* a method of the SchemaValidator called with arg for the response input
Call(op, input, arg) == [op |-> op, input |-> input, arg |-> arg]

InitText ==
    /\ ManagerInit
    /\ config_retries = {}
    /\ config_template = NoTemplate
    /\ client
    /\ op_call \in {Call("response", t, t) : t \in ResponseTexts}
    /\ op_ret = NoReturn

\* validator.sanitize_response(response)
Sanitize ==
    /\ op_call.op = "response"
    /\ op_call' = Call("sanitize_response", op_call.input, op_call.arg)
    /\ op_ret' = sanitize_response(op_call.arg)
    /\ UNCHANGED <<manager_vars, schemas>>

\* validator.sanitize_response of what sanitize_response returned
SanitizeAgain ==
    /\ op_call.op = "sanitize_response"
    /\ op_call' = Call("sanitize_response again", op_call.input, op_ret)
    /\ op_ret' = sanitize_response(op_ret)
    /\ UNCHANGED <<manager_vars, schemas>>

\* validator.validate_structured_response(response)
Validate ==
    /\ op_call.op = "response"
    /\ \A i \in 1..Len(op_call.arg) : op_call.arg[i] \in ParserLines
    /\ op_call' = Call("validate_structured_response", op_call.input, op_call.arg)
    /\ op_ret' = validate_structured_response(op_call.arg)
    /\ UNCHANGED <<manager_vars, schemas>>

NextText == Sanitize \/ SanitizeAgain \/ Validate

SpecText == InitText /\ [][NextText]_vars

\* the lines that hold no wrapper marker, in their order
UnmarkedLines(text) == SelectSeq(text, LAMBDA line : ~HasSkipPattern(line))

\* C14 (as claimed): sanitize_response returns exactly the input lines that
\* hold no wrapper marker, in their order, without the blank lines before the
\* first and after the last of them; a data line that holds a marker is
\* dropped with the wrappers.
C14_SanitizeKeepsUnmarkedLines ==
    op_call.op = "sanitize_response"
    => op_ret = RStrip(LStrip(UnmarkedLines(op_call.arg)))

\* C15: sanitizing a sanitized response changes nothing:
\* sanitize_response(sanitize_response(x)) = sanitize_response(x).
C15_SanitizeIsIdempotent ==
    op_call.op = "sanitize_response again" => op_ret = op_call.arg

C15_Witness ==
    /\ op_call.op = "sanitize_response again"
    /\ op_call.input = <<Fence, IndentB, Blank>>
    /\ op_call.arg = <<YamlB>>
    /\ op_ret = <<YamlB>>

ConversationalWrappers == {TheResponseIs, HeresResult, LeadIn}
Payloads == {JsonA, YamlA}

\* one or more conversational wrapper lines, then a payload line
IsWrappedPayload(text) ==
    /\ Len(text) >= 2
    /\ \A i \in 1..(Len(text) - 1) : text[i] \in ConversationalWrappers
    /\ Last(text) \in Payloads

\* C16 (as claimed): for a response made of conversational wrapper lines
\* ("The response is:", "Here's the result:", ...) followed by a payload,
\* sanitize_response removes every wrapper line and returns the payload.
C16_WrappersAreRemoved ==
    (op_call.op = "sanitize_response" /\ IsWrappedPayload(op_call.arg))
    => op_ret = <<Last(op_call.arg)>>

C18_ParserNeverRaises ==
    op_call.op = "validate_structured_response"
    => /\ ~op_ret.raised
       /\ LET sanitized == sanitize_response(op_call.arg)
              yaml == YamlSafeLoad(sanitized)
          IN  (/\ sanitized # <<>> /\ ~JsonOk(sanitized)
               /\ (yaml.kind # "value" \/ yaml.value = None))
              => /\ ~op_ret.valid
                 /\ op_ret.format = "unknown"
                 /\ op_ret.data = None
                 /\ op_ret.errors # <<>>
                 /\ yaml.kind # "value" => Len(op_ret.errors) = 2

----------------------------------------------------------------------------
(* The Schema Store on its own: load_schemas_from_folder, add_schema and   *)
(* the reading methods, with validated chats in between                    *)

\* most files of a schema folder
MaxFiles == 2

\* an entry of os.listdir(schema_folder): name + suffix is the file name
File(name, suffix, content, readable) ==
    [name |-> name, suffix |-> suffix, content |-> content, readable |-> readable]

SchemaSuffix == ".schema.txt"

FolderFiles ==
    {File("pair", SchemaSuffix, <<YamlB>>, TRUE),
     File("extra", SchemaSuffix, <<Blank, YamlA, Blank>>, TRUE),
     File("empty", SchemaSuffix, <<Blank>>, TRUE),
     File("locked", SchemaSuffix, <<YamlA>>, FALSE),
     File("notes", ".txt", <<YamlA>>, TRUE)}

\* a folder: exists, and its entries in the order os.listdir gives them
Folder(exists, files) == [exists |-> exists, files |-> files]

Folders ==
    {Folder(TRUE, files) : files \in TextsOver(FolderFiles, MaxFiles)}
        \cup {Folder(FALSE, <<>>)}

\* the for loop of load_schemas_from_folder, lines 48-58, inside the try of
\* line 47: open() raising on a file ends the loop, the entries stored so
\* far stay
RECURSIVE LoadFiles(_, _)
LoadFiles(store, files) ==
    IF files = <<>> THEN store
    ELSE LET file == Head(files)
             content == Strip(file.content)
         IN  IF file.suffix # SchemaSuffix THEN LoadFiles(store, Tail(files))
             ELSE IF ~file.readable THEN store
             ELSE IF content = <<>> THEN LoadFiles(store, Tail(files))
             ELSE LoadFiles(StoreSchema(store, file.name, TextSchema(content)),
                            Tail(files))

\* the store after load_schemas_from_folder(schema_folder)
load_schemas_from_folder(store, schema_folder) ==
    IF ~schema_folder.exists THEN store ELSE LoadFiles(store, schema_folder.files)

\* an entry of 'errors': a message, or the descriptor built from a
\* ValidationError (message, path, invalid_value)
ErrorMessage(message) ==
    [form |-> "message", message |-> message, path |-> <<>>, invalid_value |-> None]
ErrorDetails(message, path, invalid_value) ==
    [form |-> "descriptor", message |-> message, path |-> path,
     invalid_value |-> invalid_value]

\* validate_data_with_schema(data, schema), lines 147-170: validate() raises
\* ValidationError for data that breaks a rule (at the root: empty path, the
\* data as instance) and SchemaError for a schema that is a text
validate_data_with_schema(data, schema) ==
    IF schema.kind # "dict"
    THEN [valid |-> FALSE, errors |-> <<ErrorMessage("Schema validation failed")>>]
    ELSE IF Conforms(data, schema)
    THEN [valid |-> TRUE, errors |-> <<>>]
    ELSE [valid |-> FALSE,
          errors |-> <<ErrorDetails(IF data.type = "object"
                                    THEN "is a required property"
                                    ELSE "is not of type 'object'", <<>>, data)>>]

\* validate_data(data, schema_name): {'valid': ..., 'errors': [...]}
validate_data(store, data, schema_name) ==
    IF schema_name \notin DOMAIN store
    THEN [valid |-> FALSE, errors |-> <<ErrorMessage("Schema not found")>>]
    ELSE validate_data_with_schema(data, store[schema_name])

\* a method of the Schema Store called with a name and another argument
StoreCall(op, name, arg) == [op |-> op, name |-> name, arg |-> arg]

Returned(value) == [returned |-> TRUE, raised |-> FALSE, value |-> value]
RaisedError == [returned |-> FALSE, raised |-> TRUE, value |-> None]

StoreNames == {"pair", "extra", "nobody"}

InitStore ==
    /\ ManagerInit
    /\ config_retries = {0}
    /\ config_template = NoTemplate
    /\ client
    /\ op_call = NoCall
    /\ op_ret = NoReturn

\* the frame of a Schema Store method called while no chat is running
StoreFrame ==
    /\ pc = "idle"
    /\ UNCHANGED <<config_retries, config_template, client, prompts, pc, args,
                   max_retries, schema_content, modified_prompt, response, attempt,
                   result, chat_calls, requests, validations, outcomes,
                   schema_lookups>>

StoreAdd(name, schema) ==
    /\ StoreFrame
    /\ AddSchema(name, schema)
    /\ op_call' = StoreCall("add_schema", name, schema)
    /\ op_ret' = IF check_schema(schema) THEN Returned(None) ELSE RaisedError

StoreLoad(schema_folder) ==
    /\ StoreFrame
    /\ schemas' = load_schemas_from_folder(schemas, schema_folder)
    /\ op_call' = StoreCall("load_schemas_from_folder", "", schema_folder)
    /\ op_ret' = Returned(None)
    /\ UNCHANGED add_raised

StoreHas(name) ==
    /\ StoreFrame
    /\ op_call' = StoreCall("has_schema_for_prompt", name, None)
    /\ op_ret' = Returned(has_schema_for_prompt(schemas, name))
    /\ UNCHANGED <<schemas, add_raised>>

StoreGet(name) ==
    /\ StoreFrame
    /\ op_call' = StoreCall("get_schema_content", name, None)
    /\ op_ret' = Returned(get_schema_content(schemas, name))
    /\ UNCHANGED <<schemas, add_raised>>

StoreValidate(data, name) ==
    /\ StoreFrame
    /\ op_call' = StoreCall("validate_data", name, data)
    /\ op_ret' = Returned(validate_data(schemas, data, name))
    /\ UNCHANGED <<schemas, add_raised>>

\* list_schemas(): list(self.schemas.keys())
StoreList ==
    /\ StoreFrame
    /\ op_call' = StoreCall("list_schemas", "", None)
    /\ op_ret' = Returned(DOMAIN schemas)
    /\ UNCHANGED <<schemas, add_raised>>

\* the two AIManager classes of the repository
Packages == {"wl_ai_manager", "ai_manager"}

\* wl_ai_manager/ai_manager.py lines 187-196: the names that are a schema
\* and a prompt
get_schema_prompts(prompt_table, store) == DOMAIN store \cap DOMAIN prompt_table

\* prompt names that end with '.schema': get_prompts keys a prompt by
\* filename.split('.')[0], which holds no dot
DotSchemaNames == {}

\* ai_manager/ai_manager.py lines 245-258, the second definition of the
\* method in that class (it replaces the one of lines 177-186): the prompt
\* names that end with '.schema' and whose base name has a schema
get_schema_prompts_second(prompt_table, store) ==
    {n \in DOMAIN prompt_table \cap DotSchemaNames : has_schema_for_prompt(store, n)}

\* AIManager.get_schema_prompts() of either package
SchemaPrompts(package) ==
    /\ StoreFrame
    /\ op_call' = StoreCall("get_schema_prompts", package, None)
    /\ op_ret' = Returned(IF package = "wl_ai_manager"
                          THEN get_schema_prompts(prompts, schemas)
                          ELSE get_schema_prompts_second(prompts, schemas))
    /\ UNCHANGED <<schemas, add_raised>>

NextStore ==
    \/ \E name \in StoreNames, schema \in AddSchemas : StoreAdd(name, schema)
    \/ \E package \in Packages : SchemaPrompts(package)
    \/ \E schema_folder \in Folders : StoreLoad(schema_folder)
    \/ \E name \in StoreNames : StoreHas(name)
    \/ \E name \in StoreNames : StoreGet(name)
    \/ \E name \in StoreNames, data \in {ObjA, ObjB, None} : StoreValidate(data, name)
    \/ StoreList
    \/ \E data \in DataMaps : Chat("pair", data, TRUE)
    \/ Attempt
    \/ Return

SpecStore == InitStore /\ [][NextStore]_vars

\* this step is a call of add_schema
AddStep == op_call'.op = "add_schema" /\ op_call' # op_call

\* C19: add_schema checks the schema before it stores it: a malformed schema
\* makes it raise and leaves the store exactly as it was, names and
\* contents; a well-formed one is stored under the name.
C19_MalformedSchemaIsRejected ==
    [][AddStep =>
        IF op_call'.arg.wellformed
        THEN /\ ~op_ret'.raised
             /\ op_call'.name \in DOMAIN schemas'
             /\ schemas'[op_call'.name] = op_call'.arg
        ELSE /\ op_ret'.raised
             /\ add_raised'
             /\ schemas' = schemas]_vars

C19_Witness ==
    /\ op_call = StoreCall("add_schema", "pair", SchemaMalformed)
    /\ op_ret.raised
    /\ schemas["pair"] = SchemaRequireA
    /\ "extra" \in DOMAIN schemas

\* the names the files of a folder can be stored under
FileNames(schema_folder) ==
    {schema_folder.files[i].name : i \in 1..Len(schema_folder.files)}

\* C20: no operation of the Schema Store (load, add, has, get, validate,
\* list, validated chat) deletes an entry: the set of names only grows; an
\* entry changes only by an add_schema for its name or by a load of a folder
\* that holds a file of its name; and after a successful add_schema(name, s)
\* the content returned for name is s.
C20_StoreOnlyGrows ==
    [][/\ DOMAIN schemas \subseteq DOMAIN schemas'
       /\ \A n \in DOMAIN schemas' :
            (n \notin DOMAIN schemas \/ schemas'[n] # schemas[n])
            => \/ /\ op_call'.op = "add_schema"
                  /\ op_call'.name = n
                  /\ schemas'[n] = op_call'.arg
               \/ /\ op_call'.op = "load_schemas_from_folder"
                  /\ n \in FileNames(op_call'.arg)
       /\ (AddStep /\ ~op_ret'.raised)
            => get_schema_content(schemas', op_call'.name) = op_call'.arg]_vars

C20_Witness ==
    /\ op_call = StoreCall("get_schema_content", "pair", None)
    /\ op_ret = Returned(SchemaRequireA)
    /\ DOMAIN schemas = DOMAIN LoadedSchemas \cup {"extra", "nobody"}
    /\ pc = "idle"

\* this step is a call of load_schemas_from_folder
LoadStep == op_call'.op = "load_schemas_from_folder" /\ op_call' # op_call

\* the file can be loaded: a schema file that can be read and is not blank
Loadable(file) ==
    file.suffix = SchemaSuffix /\ file.readable /\ Strip(file.content) # <<>>

\* C21 (as claimed): load_schemas_from_folder never raises, and a file that
\* cannot be read does not keep the other schema files of the folder from
\* being loaded: after the load every readable, non-blank schema file of the
\* folder is stored under its name.
C21_LoadSkipsBadFiles ==
    [][LoadStep =>
        /\ ~op_ret'.raised
        /\ LET files == op_call'.arg.files
           IN  \A i \in 1..Len(files) :
                 Loadable(files[i])
                 => /\ files[i].name \in DOMAIN schemas'
                    /\ \E j \in 1..Len(files) :
                         /\ files[j].name = files[i].name
                         /\ Loadable(files[j])
                         /\ schemas'[files[i].name]
                                = TextSchema(Strip(files[j].content))]_vars

\* this step is a call of validate_data
ValidateStep == op_call'.op = "validate_data" /\ op_call' # op_call

\* C22: validate_data(data, name) never raises and leaves the Schema Store
\* as it is.  For a name the store does not hold it returns valid False with
\* the one error "Schema '<name>' not found".  For a stored dict schema it
\* returns valid True and no error when the data meets the type and
\* required-field rules, and otherwise valid False with one descriptor that
\* carries a message, the path of the failing value and the value itself.
C22_ValidateDataReports ==
    [][ValidateStep =>
        LET name == op_call'.name
            data == op_call'.arg
            got == op_ret'.value
        IN  /\ ~op_ret'.raised
            /\ schemas' = schemas
            /\ name \notin DOMAIN schemas
                => /\ ~got.valid
                   /\ Len(got.errors) = 1
                   /\ got.errors[1].form = "message"
                   /\ got.errors[1].message = "Schema not found"
            /\ (name \in DOMAIN schemas /\ schemas[name].kind = "dict")
                => IF \/ schemas[name].required = {}
                      \/ (data.type = "object"
                            /\ schemas[name].required \subseteq data.keys)
                   THEN got.valid /\ got.errors = <<>>
                   ELSE /\ ~got.valid
                        /\ Len(got.errors) = 1
                        /\ got.errors[1].form = "descriptor"
                        /\ got.errors[1].message # ""
                        /\ got.errors[1].path = <<>>
                        /\ got.errors[1].invalid_value = data]_vars

C22_Witness ==
    /\ op_call = StoreCall("validate_data", "pair", ObjB)
    /\ schemas["pair"] = SchemaRequireA
    /\ ~op_ret.value.valid
    /\ op_ret.value.errors[1].invalid_value = ObjB

----------------------------------------------------------------------------
(* music_generation.py create_music: the continuation audio handle.        *)
(* op_call holds the arguments and the locals of the call, at is the       *)
(* position reached in the function body.                                  *)

\* continuation_audio: None, a path that does not exist, a file, a file
\* that open() refuses
ContinuationAudios == {"none", "missing", "file", "unopenable"}

\* config: None, without a replicate attribute, with one that has no
\* api_key, with an api_key
MusicConfigs == {"none", "no replicate", "no api_key", "api_key"}

\* what client.run does: raises ModelError or another exception, or returns
\* an output with or without an audio URL
RunOutcomes == {"ModelError", "Exception", "url", "no url"}

\* what requests.get and the write of the output file do
DownloadOutcomes == {"saved", "HTTPError"}

MusicCall(continuation_audio, has_client, config, at, audio_file_handle) ==
    [op |-> "create_music", continuation_audio |-> continuation_audio,
     client |-> has_client, config |-> config, at |-> at,
     audio_file_handle |-> audio_file_handle]

InitMusic ==
    /\ ManagerInit
    /\ config_retries = {}
    /\ config_template = NoTemplate
    /\ client
    /\ op_call \in {MusicCall(a, c, g, "line 64", "none") :
                        a \in ContinuationAudios, c \in BOOLEAN, g \in MusicConfigs}
    /\ op_ret = NoReturn

\* lines 64-77: open the continuation audio
MusicOpen ==
    /\ op_call.op = "create_music" /\ op_call.at = "line 64"
    /\ op_call' = [op_call EXCEPT
            !.at = "line 80",
            !.audio_file_handle =
                IF op_call.continuation_audio = "file" THEN "open" ELSE "none"]
    /\ UNCHANGED <<manager_vars, schemas, op_ret>>

\* lines 80-98: use the client given or make one; return None without a
\* usable configuration
MusicClient ==
    /\ op_call.op = "create_music" /\ op_call.at = "line 80"
    /\ IF ~op_call.client /\ op_call.config # "api_key"
       THEN /\ op_call' = [op_call EXCEPT !.at = "returned"]
            /\ op_ret' = Returned("None")
       ELSE /\ op_call' = [op_call EXCEPT !.at = "line 100"]
            /\ UNCHANGED op_ret
    /\ UNCHANGED <<manager_vars, schemas>>

\* lines 100-135 and 162-174: client.run inside try/finally, the finally
\* closes the handle; an exception or an output without URL returns None
MusicRun ==
    /\ op_call.op = "create_music" /\ op_call.at = "line 100"
    /\ \E outcome \in RunOutcomes :
        /\ op_call' = [op_call EXCEPT
                !.at = IF outcome = "url" THEN "line 141" ELSE "returned",
                !.audio_file_handle =
                    IF op_call.audio_file_handle = "open" THEN "closed"
                    ELSE op_call.audio_file_handle]
        /\ op_ret' = IF outcome = "url" THEN op_ret ELSE Returned("None")
    /\ UNCHANGED <<manager_vars, schemas>>

\* lines 141-160 and 171-174: download and save, return the path
MusicDownload ==
    /\ op_call.op = "create_music" /\ op_call.at = "line 141"
    /\ \E outcome \in DownloadOutcomes :
        /\ op_call' = [op_call EXCEPT !.at = "returned"]
        /\ op_ret' = Returned(IF outcome = "saved" THEN "path" ELSE "None")
    /\ UNCHANGED <<manager_vars, schemas>>

NextMusic == MusicOpen \/ MusicClient \/ MusicRun \/ MusicDownload

SpecMusic == InitMusic /\ [][NextMusic]_vars

\* C23 (as claimed): whenever create_music opened the continuation audio
\* file, the handle is closed when create_music has returned, whether it
\* returned a path or None.
C23_HandleClosedOnReturn ==
    (op_call.op = "create_music" /\ op_call.at = "returned")
    => op_call.audio_file_handle # "open"

\* C24 (as claimed): AIManager.get_schema_prompts returns exactly the names
\* that are a key of the prompt table and a key of the Schema Store.
C24_SchemaPromptsAreTheIntersection ==
    op_call.op = "get_schema_prompts"
    => op_ret.value = {n \in DOMAIN prompts : n \in DOMAIN schemas}

\* C25 (as claimed): every dict validate_structured_response returns carries
\* the five keys valid, format, data, errors and sanitized_response, on every
\* path, the one of an empty sanitized text included.
C25_ResultHasFiveFields ==
    (op_call.op = "validate_structured_response" /\ ~op_ret.raised)
    => op_ret.keys = {"valid", "format", "data", "errors", "sanitized_response"}

\* C29 (as claimed): a validated chat that returns on its success path never
\* returns None: a validation result with valid True has data that is not
\* None, so the JSON literal null is not accepted as a valid response.
C29_SuccessIsNeverNone ==
    (pc = "returned" /\ args.validate /\ result.kind = "data")
    => /\ result.data # None
       /\ validate_structured_response(response.text).data # None

\* C26: a validated chat calls the model collaborator at most max_retries + 1
\* times whatever the attempts produce (empty, invalid, fault, valid), and an
\* attempt that returned a valid response is the last one of the call.
C26_AtMostRetriesPlusOneCalls ==
    args.validate =>
        /\ Len(chat_calls) <= max_retries + 1
        /\ Len(requests) <= Len(chat_calls)
        /\ Len(outcomes) = Len(chat_calls)
        /\ \A i \in 1..Len(outcomes) :
               outcomes[i] = "valid" => (i = Len(outcomes) /\ pc = "returned")

\* every attempt of a call with two retries was used, and they ended in
\* different ways
C26_Witness ==
    /\ pc = "returned"
    /\ args.validate
    /\ max_retries = 2
    /\ Len(requests) = 3
    /\ outcomes = <<"fault", "invalid", "valid">>

\* a step of AIManager.chat: the call, one attempt of its loop, or its return
ChatStep == pc' # pc \/ chat_calls' # chat_calls

\* C27: no step of a validated chat (the part before the loop, an attempt,
\* the return on any path) changes the prompt table or the Schema Store; the
\* augmented prompt is only in the table handed to the collaborator.
C27_ValidatedChatLeavesSharedState ==
    [][(ChatStep /\ (args.validate \/ args'.validate)) =>
            /\ prompts' = prompts
            /\ schemas' = schemas
            /\ (Len(chat_calls') > Len(chat_calls) =>
                    /\ chat_calls'[Len(chat_calls')].prompt = modified_prompt
                    /\ prompts'[args.prompt_name] = PromptTable[args.prompt_name])]_vars

\* a validated chat on a {system, user} prompt returned after two attempts made
\* with the augmented prompt, and the table still holds the original
C27_Witness ==
    /\ pc = "returned"
    /\ args.validate
    /\ Len(chat_calls) >= 2
    /\ prompts[args.prompt_name].kind = "dict"
    /\ chat_calls[1].prompt.user # prompts[args.prompt_name].user
    /\ chat_calls[1].prompt.system = prompts[args.prompt_name].system

\* C28: in a validated chat the keys chat() requires of the data are the
\* placeholders of the original user-facing template; the appended schema
\* text adds none, so data covering the original template is sent.
C28_SchemaAddsNoRequiredKeys ==
    (args.validate /\ Len(chat_calls) >= 1) =>
        /\ required_keys(chat_calls[1].prompt) = required_keys(prompts[args.prompt_name])
        /\ (client /\ required_keys(prompts[args.prompt_name]) \subseteq DOMAIN args.data)
               => Len(requests) >= 1

\* C30: a validated chat always ends by returning a value, the data or an
\* error object, and never by raising to its caller.
C30_ValidatedChatNeverRaises ==
    (pc = "returned" /\ args.validate) => result.kind \in {"data", "error"}

====
